---- MODULE Spec2Model ----
(***************************************************************************)
(* A model of pgalyzer.py: the PGalyzer class (text loading and cleaning,  *)
(* n-gram counting, concordance, likely next / previous word) and the      *)
(* ranking done by the ngrams and word-count commands.                     *)
(*                                                                         *)
(* A Python str is modelled as a sequence of code points (ord of each      *)
(* character), so that comparison, lower-casing, splitting and stripping   *)
(* are computed as Python computes them.                                   *)
(***************************************************************************)
EXTENDS Integers, Sequences, FiniteSets, TLC

\* ---------------------------------------------------------------- bounds

\* Number of pieces a modelled input file is made of (engine documents).
MaxPieces == 4
\* Number of paragraph blocks of a modelled Project Gutenberg file.
MaxBlocks == 4
\* Largest n passed to ngrams / likely_next / likely_previous.
MaxN == 3
\* Largest neighborhood_size passed to concordance / display_concordance.
MaxNS == 2
\* Number of pieces of a document on which several calls are made in a row.
MaxCallPieces == 2
\* Number of method calls made in a row on one object.
MaxCalls == 2

\* ------------------------------------------------------------ characters

NL == 10
SP == 32

Min(a, b) == IF a < b THEN a ELSE b
Max(a, b) == IF a > b THEN a ELSE b

\* The characters str.isspace() accepts (below 256): what str.split() with
\* no argument splits on and what str.strip() with no argument removes.
IsSpace(c) == c \in {9, 10, 11, 12, 13, 28, 29, 30, 31, 32, 133, 160}

\* str.lower() on one character (ASCII letters).
LowerChar(c) == IF c \in 65..90 THEN c + 32 ELSE c

\* str.lower()
Lower(s) == [i \in 1..Len(s) |-> LowerChar(s[i])]

\* s[lo:hi] for 0 <= lo: the slice stops at the end of s, no padding.
Slice(s, lo, hi) == SubSeq(s, lo + 1, Min(hi, Len(s)))

\* s.startswith(p)
StartsWith(s, p) == Len(s) >= Len(p) /\ SubSeq(s, 1, Len(p)) = p

\* s < t for Python strings: lexicographic on code points, a proper prefix
\* is smaller.
RECURSIVE StrLess(_, _)
StrLess(s, t) ==
    IF t = <<>> THEN FALSE
    ELSE IF s = <<>> THEN TRUE
    ELSE IF Head(s) # Head(t) THEN Head(s) < Head(t)
    ELSE StrLess(Tail(s), Tail(t))

\* ''.join(parts)
RECURSIVE Concat(_)
Concat(parts) ==
    IF parts = <<>> THEN <<>> ELSE Head(parts) \o Concat(Tail(parts))

\* sep.join(parts)
RECURSIVE Join(_, _)
Join(sep, parts) ==
    IF parts = <<>> THEN <<>>
    ELSE IF Len(parts) = 1 THEN parts[1]
    ELSE parts[1] \o sep \o Join(sep, Tail(parts))

\* s.split(sep) for a non-empty separator: left to right, non-overlapping;
\* empty strings are kept.
RECURSIVE SplitOn(_, _)
SplitOn(s, sep) ==
    LET hits == {i \in 1..(Len(s) - Len(sep) + 1) :
                    SubSeq(s, i, i + Len(sep) - 1) = sep}
    IN  IF hits = {} THEN <<s>>
        ELSE LET i == CHOOSE h \in hits : \A g \in hits : h <= g
             IN  <<SubSeq(s, 1, i - 1)>>
                 \o SplitOn(SubSeq(s, i + Len(sep), Len(s)), sep)

\* s.split(): the maximal runs of non-whitespace characters, in order.
RECURSIVE SplitWs(_)
SplitWs(s) ==
    LET starts == {i \in 1..Len(s) : ~IsSpace(s[i])}
    IN  IF starts = {} THEN <<>>
        ELSE LET b == CHOOSE i \in starts : \A j \in starts : i <= j
                 stops == {i \in b..Len(s) : IsSpace(s[i])}
                 e == IF stops = {} THEN Len(s) + 1
                      ELSE CHOOSE i \in stops : \A j \in stops : i <= j
             IN  <<SubSeq(s, b, e - 1)>> \o SplitWs(SubSeq(s, e, Len(s)))

\* s.strip(chars) with the characters to remove given as a predicate set.
StripSet(s, drop) ==
    LET keep == {i \in 1..Len(s) : s[i] \notin drop}
    IN  IF keep = {} THEN <<>>
        ELSE SubSeq(s, CHOOSE i \in keep : \A j \in keep : i <= j,
                       CHOOSE i \in keep : \A j \in keep : i >= j)

\* s.strip()
Strip(s) ==
    LET keep == {i \in 1..Len(s) : ~IsSpace(s[i])}
    IN  IF keep = {} THEN <<>>
        ELSE SubSeq(s, CHOOSE i \in keep : \A j \in keep : i <= j,
                       CHOOSE i \in keep : \A j \in keep : i >= j)

\* s.rstrip()
RECURSIVE StripTrailing(_)
StripTrailing(s) ==
    IF s # <<>> /\ IsSpace(s[Len(s)])
    THEN StripTrailing(SubSeq(s, 1, Len(s) - 1))
    ELSE s

\* s.replace(c, new) for a one-character c.
RECURSIVE Replace(_, _, _)
Replace(s, c, new) ==
    IF s = <<>> THEN <<>>
    ELSE (IF Head(s) = c THEN new ELSE <<Head(s)>>) \o Replace(Tail(s), c, new)

\* ------------------------------------------------- PGalyzer.__init__

\* '*** start of this project gutenberg ebook'
head == <<42, 42, 42, 32, 115, 116, 97, 114, 116, 32, 111, 102, 32, 116, 104,
          105, 115, 32, 112, 114, 111, 106, 101, 99, 116, 32, 103, 117, 116,
          101, 110, 98, 101, 114, 103, 32, 101, 98, 111, 111, 107>>

\* '*** end of this project gutenberg ebook'
foot == <<42, 42, 42, 32, 101, 110, 100, 32, 111, 102, 32, 116, 104, 105, 115,
          32, 112, 114, 111, 106, 101, 99, 116, 32, 103, 117, 116, 101, 110,
          98, 101, 114, 103, 32, 101, 98, 111, 111, 107>>

\* '|;,.:?!"()[]{}/\\-+'
punct == <<124, 59, 44, 46, 58, 63, 33, 34, 40, 41, 91, 93, 123, 125, 47, 92,
           45, 43>>

\* RemoveHeader with `del file[:ix]`: the marker block itself is kept.
RemoveHeaderKeepsMarker(file) ==
    LET hits == {ix \in 0..(Len(file) - 1) : StartsWith(file[ix + 1], head)}
    IN  IF hits = {} THEN file
        ELSE LET ix == CHOOSE h \in hits : \A g \in hits : h <= g
             IN  SubSeq(file, ix + 1, Len(file))

\* for ix, text in enumerate(file): if text.startswith(head):
\*     del file[:ix+1]; break
RemoveHeader(file) ==
    LET hits == {ix \in 0..(Len(file) - 1) : StartsWith(file[ix + 1], head)}
    IN  IF hits = {} THEN file
        ELSE LET ix == CHOOSE h \in hits : \A g \in hits : h <= g
             IN  SubSeq(file, ix + 2, Len(file))

\* file[::-1]
Reversed(s) == [i \in 1..Len(s) |-> s[Len(s) + 1 - i]]

\* for ix, text in enumerate(file[::-1]): if text.startswith(foot):
\*     del file[-(ix+1):]; break
RemoveFooter(file) ==
    LET rev == Reversed(file)
        hits == {ix \in 0..(Len(rev) - 1) : StartsWith(rev[ix + 1], foot)}
    IN  IF hits = {} THEN file
        ELSE LET ix == CHOOSE h \in hits : \A g \in hits : h <= g
             IN  SubSeq(file, 1, Len(file) - (ix + 1))

\* list(filter(('').__ne__, file))
RECURSIVE DropEmpty(_)
DropEmpty(file) ==
    IF file = <<>> THEN <<>>
    ELSE (IF Head(file) = <<>> THEN <<>> ELSE <<Head(file)>>)
         \o DropEmpty(Tail(file))

\* for p in punct: text = text.replace(p, '')
RECURSIVE RemovePunct(_, _)
RemovePunct(text, ps) ==
    IF ps = <<>> THEN text
    ELSE RemovePunct(Replace(text, Head(ps), <<>>), Tail(ps))

\* The body of the last loop of __init__, for one block.
CleanBlock(text) ==
    RemovePunct(Replace(StripSet(text, {NL}), NL, <<SP>>), punct) \o <<NL>>

\* The paragraph blocks left once the header and the footer are removed.
KeptBlocks(file) == RemoveFooter(RemoveHeader(SplitOn(Lower(file), <<NL, NL>>)))

\* A clean_pg branch ending in ''.join(file).rstrip().
CleanTextKeepsLeading(file) ==
    LET blocks == DropEmpty(KeptBlocks(file))
    IN  StripTrailing(Concat([i \in 1..Len(blocks) |-> CleanBlock(blocks[i])]))

\* The clean_pg branch of __init__: the value given to self.text.
CleanText(file) ==
    LET blocks == DropEmpty(KeptBlocks(file))
    IN  Strip(Concat([i \in 1..Len(blocks) |-> CleanBlock(blocks[i])]))

\* self.text after PGalyzer(file, clean_pg), file being the file's contents.
LoadText(file, clean) == IF clean THEN CleanText(file) ELSE file

\* ------------------------------------------------------ Counter, sorted

\* Counter(items): <<key, count>> pairs in the order the keys were first
\* met (a dict keeps insertion order).
RECURSIVE CounterAdd(_, _)
CounterAdd(c, items) ==
    IF items = <<>> THEN c
    ELSE LET k == Head(items)
             at == {j \in 1..Len(c) : c[j][1] = k}
         IN  IF at = {} THEN CounterAdd(Append(c, <<k, 1>>), Tail(items))
             ELSE LET j == CHOOSE x \in at : TRUE
                  IN  CounterAdd([c EXCEPT ![j] = <<k, c[j][2] + 1>>],
                                 Tail(items))

Counter(items) == CounterAdd(<<>>, items)

\* The sort keys used, as "x's key is smaller than y's".
\* Counter.most_common(): by count, largest first.
CountMore(x, y) == x[2] > y[2]

\* The key of the ngrams and word-count commands: (-x[1], x[0].lower())
RankLess(x, y) ==
    \/ x[2] > y[2]
    \/ x[2] = y[2] /\ StrLess(Lower(x[1]), Lower(y[1]))

\* NeighbourLess with the key -i[1] alone: ties keep the order of first
\* encounter.
NeighbourLessByCount(x, y) == x[2] > y[2]

\* The key of likely_next and likely_previous: (-i[1], i[0])
NeighbourLess(x, y) ==
    \/ x[2] > y[2]
    \/ x[2] = y[2] /\ StrLess(x[1], y[1])

KeyLess(key, x, y) ==
    CASE key = "most_common" -> CountMore(x, y)
      [] key = "rank" -> RankLess(x, y)
      [] key = "neighbour" -> NeighbourLess(x, y)

\* sorted(seq, key=...): a stable sort; elements with equal keys keep the
\* order they had in seq.
Insert(s, x, key) ==
    LET k == Cardinality({j \in 1..Len(s) : ~KeyLess(key, x, s[j])})
    IN  SubSeq(s, 1, k) \o <<x>> \o SubSeq(s, k + 1, Len(s))

Sorted(seq, key) ==
    LET f[i \in 0..Len(seq)] ==
            IF i = 0 THEN <<>> ELSE Insert(f[i - 1], seq[i], key)
    IN  f[Len(seq)]

\* Counter.most_common(): equal counts stay in insertion order.
MostCommon(c) == Sorted(c, "most_common")

\* ----------------------------------------------------- PGalyzer.ngrams

\* LineNgrams with `if i+n >= len(words_all)`: the last window of each line
\* is lost.
RECURSIVE LineNgramsDropsLast(_, _, _)
LineNgramsDropsLast(words_all, n, i) ==
    IF i >= Len(words_all) THEN <<>>
    ELSE IF i + n >= Len(words_all) THEN <<>>
    ELSE <<Join(<<SP>>, Slice(words_all, i, i + n))>>
         \o LineNgramsDropsLast(words_all, n, i + 1)

\* The inner loop of ngrams over one line's words, from index i on.
RECURSIVE LineNgrams(_, _, _)
LineNgrams(words_all, n, i) ==
    IF i >= Len(words_all) THEN <<>>
    ELSE IF i + n > Len(words_all) THEN <<>>
    ELSE <<Join(<<SP>>, Slice(words_all, i, i + n))>>
         \o LineNgrams(words_all, n, i + 1)

\* NgramList without the split into lines: the windows run over the words
\* of the whole text.
NgramListAcrossLines(t, n) == LineNgrams(SplitWs(t), n, 0)

\* The list `ngrams` built by the outer loop.
NgramList(t, n) ==
    LET paragraphs == SplitOn(t, <<NL>>)
    IN  Concat([p \in 1..Len(paragraphs) |->
                    LineNgrams(SplitWs(paragraphs[p]), n, 0)])

ngrams(t, n) == Counter(NgramList(t, n))

\* word_count with self.text.split(' '): only single spaces separate words.
word_countSplitOnSpace(t) == Counter(SplitOn(t, <<SP>>))

\* PGalyzer.word_count
word_count(t) == Counter(SplitWs(t))

\* sorted([x for x in c.most_common()], key=lambda x: (-x[1], x[0].lower()))
Ranked(c) == Sorted(MostCommon(c), "rank")

\* ------------------------------------------------ PGalyzer.concordance

\* LineConcordance with forward_index = i + neighborhood_size: the window
\* after the word is one token short.
RECURSIVE LineConcordanceShortAfter(_, _, _, _)
LineConcordanceShortAfter(items, word, neighborhood_size, i) ==
    IF i >= Len(items) THEN <<>>
    ELSE IF items[i + 1] # word
         THEN LineConcordanceShortAfter(items, word, neighborhood_size, i + 1)
    ELSE LET backward_index == IF i - neighborhood_size < 0 THEN 0
                               ELSE i - neighborhood_size
             forward_index == i + neighborhood_size
             string_before == Join(<<SP>>, Slice(items, backward_index, i))
             string_after == Join(<<SP>>, Slice(items, i + 1, forward_index))
         IN  <<<<string_before, string_after>>>>
             \o LineConcordanceShortAfter(items, word, neighborhood_size, i + 1)

\* LineConcordance with `word.lower() == s.lower()`: tokens that differ from
\* the word in letter case match too.
RECURSIVE LineConcordanceIgnoreCase(_, _, _, _)
LineConcordanceIgnoreCase(items, word, neighborhood_size, i) ==
    IF i >= Len(items) THEN <<>>
    ELSE IF Lower(items[i + 1]) # Lower(word)
         THEN LineConcordanceIgnoreCase(items, word, neighborhood_size, i + 1)
    ELSE LET backward_index == IF i - neighborhood_size < 0 THEN 0
                               ELSE i - neighborhood_size
             forward_index == i + neighborhood_size + 1
             string_before == Join(<<SP>>, Slice(items, backward_index, i))
             string_after == Join(<<SP>>, Slice(items, i + 1, forward_index))
         IN  <<<<string_before, string_after>>>>
             \o LineConcordanceIgnoreCase(items, word, neighborhood_size, i + 1)

\* The windows of one line for the occurrences of word at index i or later.
RECURSIVE LineConcordance(_, _, _, _)
LineConcordance(items, word, neighborhood_size, i) ==
    IF i >= Len(items) THEN <<>>
    ELSE IF items[i + 1] # word
         THEN LineConcordance(items, word, neighborhood_size, i + 1)
    ELSE LET backward_index == IF i - neighborhood_size < 0 THEN 0
                               ELSE i - neighborhood_size
             forward_index == i + neighborhood_size + 1
             string_before == Join(<<SP>>, Slice(items, backward_index, i))
             string_after == Join(<<SP>>, Slice(items, i + 1, forward_index))
         IN  <<<<string_before, string_after>>>>
             \o LineConcordance(items, word, neighborhood_size, i + 1)

concordance(t, word, neighborhood_size) ==
    LET text_split == SplitOn(t, <<NL>>)
    IN  Concat([l \in 1..Len(text_split) |->
                    LineConcordance(SplitWs(text_split[l]), word,
                                    neighborhood_size, 0)])

\* ' ' * k
Spaces(k) == [i \in 1..k |-> SP]

SetMax(S) == CHOOSE x \in S : \A y \in S : x >= y

\* PGalyzer.display_concordance. list(zip(*concordance))[0] indexes an empty
\* list when there is no window: IndexError.
display_concordance(t, word, neighborhood_size) ==
    LET conc == concordance(t, word, neighborhood_size)
    IN  IF conc = <<>> THEN [kind |-> "IndexError", val |-> <<>>]
        ELSE LET space == SetMax({Len(conc[e][1]) : e \in 1..Len(conc)})
                 display == [e \in 1..Len(conc) |->
                     Spaces(space - Len(conc[e][1])) \o conc[e][1]
                     \o <<SP>> \o <<60, 98, 62>> \o word \o <<60, 47, 98, 62>>
                     \o <<SP>> \o conc[e][2]]
                 first == [display EXCEPT ![1] = <<60, 112, 114, 101, 62>> \o @]
                 last == [first EXCEPT ![Len(first)] =
                              @ \o <<60, 47, 112, 114, 101, 62>>]
             IN  [kind |-> "value", val |-> Join(<<NL>>, last)]

\* ------------------------------ PGalyzer.likely_next, likely_previous

\* new_dict[k] += [v] on a defaultdict(list), kept as <<key, list>> pairs in
\* insertion order.
RECURSIVE DictAppend(_, _)
DictAppend(d, pairs) ==
    IF pairs = <<>> THEN d
    ELSE LET k == Head(pairs)[1]
             v == Head(pairs)[2]
             at == {j \in 1..Len(d) : d[j][1] = k}
         IN  IF at = {} THEN DictAppend(Append(d, <<k, <<v>>>>), Tail(pairs))
             ELSE LET j == CHOOSE x \in at : TRUE
                  IN  DictAppend([d EXCEPT ![j] = <<k, Append(d[j][2], v)>>],
                                 Tail(pairs))

\* NextPairs with range(1, len(words)-1): the first pair of each line is
\* not recorded.
NextPairsSkipsFirst(words) ==
    [k \in 1..(Len(words) - 2) |-> <<words[k + 1], words[k + 2]>>]

\* for index in range(len(words)-1): new_dict[words[index]] += [words[index+1]]
NextPairs(words) ==
    [k \in 1..(Len(words) - 1) |-> <<words[k], words[k + 1]>>]

\* for index in range(1, len(words)): new_dict[words[index]] += [words[index-1]]
PreviousPairs(words) ==
    [k \in 1..(Len(words) - 1) |-> <<words[k + 1], words[k]>>]

NextDict(t) ==
    LET text_split == SplitOn(t, <<NL>>)
    IN  DictAppend(<<>>, Concat([l \in 1..Len(text_split) |->
                                    NextPairs(SplitWs(text_split[l]))]))

PreviousDict(t) ==
    LET text_split == SplitOn(t, <<NL>>)
    IN  DictAppend(<<>>, Concat([l \in 1..Len(text_split) |->
                                    PreviousPairs(SplitWs(text_split[l]))]))

\* count_dict: each key of new_dict with its neighbours counted and ranked.
CountDict(new_dict) ==
    [j \in 1..Len(new_dict) |->
        <<new_dict[j][1],
          Sorted(MostCommon(Counter(new_dict[j][2])), "neighbour")>>]

\* Lookup with count_dict.get(word, []): a missing key gives an empty list.
LookupOrEmpty(count_dict, word, n) ==
    LET at == {j \in 1..Len(count_dict) : count_dict[j][1] = word}
    IN  [kind |-> "value",
         val |-> IF at = {} THEN <<>>
                 ELSE Slice(count_dict[CHOOSE j \in at : TRUE][2], 0, n)]

\* (count_dict[word])[:n]; a missing key raises KeyError.
Lookup(count_dict, word, n) ==
    LET at == {j \in 1..Len(count_dict) : count_dict[j][1] = word}
    IN  IF at = {} THEN [kind |-> "KeyError", val |-> <<>>]
        ELSE [kind |-> "value",
              val |-> Slice(count_dict[CHOOSE j \in at : TRUE][2], 0, n)]

likely_next(t, word, n) == Lookup(CountDict(NextDict(t)), word, n)

likely_previous(t, word, n) == Lookup(CountDict(PreviousDict(t)), word, n)

\* ------------------------------------------------------------------ state

VARIABLES
    raw,        \* the contents of the input file
    clean_pg,   \* the clean_pg flag the object is constructed with
    pc,         \* "new": not constructed; "ready": constructed;
                \* "returned": the method called has returned or raised
    text,       \* self.text
    blocks,     \* __init__'s list `file` once header and footer are removed
    op,         \* the last method called, with its arguments
    ret,        \* what that call returned, or the exception it raised
    calls       \* the number of method calls made on the object

vars == <<raw, clean_pg, pc, text, blocks, op, ret, calls>>

None == [kind |-> "none", val |-> <<>>]

\* -------------------------------------------------------------- inputs

\* Engine documents: up to MaxPieces pieces, each a word or a word followed
\* by a space or a newline, or a bare space or newline.
Pieces ==
    { <<97>>, <<65>>, <<SP>>, <<NL>>,
      <<97, SP>>, <<65, SP>>, <<97, NL>>, <<65, NL>> }

SeqsUpTo(S, k) == UNION {[1..m -> S] : m \in 0..k}

Docs == {Concat(ps) : ps \in SeqsUpTo(Pieces, MaxPieces)}

\* The words queried: "a", "A" and "b" (which no engine document holds).
Words == { <<97>>, <<65>>, <<98>> }

\* Project Gutenberg files: up to MaxBlocks paragraph blocks joined by blank
\* lines. The block texts: the start and end banners as the files carry them
\* (upper case, closed by ' ***'), 'A', '.', the empty block, ' A' and
\* 'A\n.b'.
BlockTexts ==
    { <<42, 42, 42, 32, 83, 84, 65, 82, 84, 32, 79, 70, 32, 84, 72, 73, 83,
        32, 80, 82, 79, 74, 69, 67, 84, 32, 71, 85, 84, 69, 78, 66, 69, 82,
        71, 32, 69, 66, 79, 79, 75, 32, 42, 42, 42>>,
      <<42, 42, 42, 32, 69, 78, 68, 32, 79, 70, 32, 84, 72, 73, 83, 32, 80,
        82, 79, 74, 69, 67, 84, 32, 71, 85, 84, 69, 78, 66, 69, 82, 71, 32,
        69, 66, 79, 79, 75, 32, 42, 42, 42>>,
      <<65>>, <<46>>, <<>>, <<SP, 65>>, <<65, NL, 46, 98>> }

PGDocs == {Join(<<NL, NL>>, bs) : bs \in SeqsUpTo(BlockTexts, MaxBlocks)}

Fresh ==
    /\ pc = "new"
    /\ text = <<>>
    /\ blocks = <<>>
    /\ op = None
    /\ ret = None
    /\ calls = 0

\* Any engine document, loaded verbatim.
Init ==
    /\ raw \in Docs
    /\ clean_pg = FALSE
    /\ Fresh

\* A Project Gutenberg file, cleaned.
InitClean ==
    /\ raw \in PGDocs
    /\ clean_pg = TRUE
    /\ Fresh

\* PGalyzer(text_file, clean_pg)
PGalyzerInit ==
    /\ pc = "new"
    /\ pc' = "ready"
    /\ text' = LoadText(raw, clean_pg)
    /\ blocks' = IF clean_pg THEN KeptBlocks(raw) ELSE <<>>
    /\ UNCHANGED <<raw, clean_pg, op, ret, calls>>

Call(name, word, n) == [name |-> name, word |-> word, n |-> n]
Value(v) == [kind |-> "value", val |-> v]

\* analyzer.ngrams(n)
DoNgrams ==
    /\ pc = "ready"
    /\ \E n \in 1..MaxN :
        /\ op' = Call("ngrams", <<>>, n)
        /\ ret' = Value(ngrams(text, n))
    /\ pc' = "returned"
    /\ calls' = calls + 1
    /\ UNCHANGED <<raw, clean_pg, text, blocks>>

\* A word_count() that tidies self.text while counting.
DoWordCountStripsText ==
    /\ pc = "ready"
    /\ op' = Call("word_count", <<>>, 0)
    /\ ret' = Value(word_count(text))
    /\ text' = Strip(text)
    /\ pc' = "returned"
    /\ calls' = calls + 1
    /\ UNCHANGED <<raw, clean_pg, blocks>>

\* analyzer.word_count()
DoWordCount ==
    /\ pc = "ready"
    /\ op' = Call("word_count", <<>>, 0)
    /\ ret' = Value(word_count(text))
    /\ pc' = "returned"
    /\ calls' = calls + 1
    /\ UNCHANGED <<raw, clean_pg, text, blocks>>

\* The ngrams command: the ranked list it prints.
CmdNgrams ==
    /\ pc = "ready"
    /\ \E n \in 1..MaxN :
        /\ op' = Call("cmd_ngrams", <<>>, n)
        /\ ret' = Value(Ranked(ngrams(text, n)))
    /\ pc' = "returned"
    /\ calls' = calls + 1
    /\ UNCHANGED <<raw, clean_pg, text, blocks>>

\* The word-count command: the ranked list it prints.
CmdWordCount ==
    /\ pc = "ready"
    /\ op' = Call("cmd_word_count", <<>>, 0)
    /\ ret' = Value(Ranked(word_count(text)))
    /\ pc' = "returned"
    /\ calls' = calls + 1
    /\ UNCHANGED <<raw, clean_pg, text, blocks>>

\* analyzer.concordance(word, neighborhood_size)
DoConcordance ==
    /\ pc = "ready"
    /\ \E word \in Words, ns \in 0..MaxNS :
        /\ op' = Call("concordance", word, ns)
        /\ ret' = Value(concordance(text, word, ns))
    /\ pc' = "returned"
    /\ calls' = calls + 1
    /\ UNCHANGED <<raw, clean_pg, text, blocks>>

\* analyzer.display_concordance(word, neighborhood_size)
DoDisplayConcordance ==
    /\ pc = "ready"
    /\ \E word \in Words, ns \in 0..MaxNS :
        /\ op' = Call("display_concordance", word, ns)
        /\ ret' = display_concordance(text, word, ns)
    /\ pc' = "returned"
    /\ calls' = calls + 1
    /\ UNCHANGED <<raw, clean_pg, text, blocks>>

\* analyzer.likely_next(word, n)
DoLikelyNext ==
    /\ pc = "ready"
    /\ \E word \in Words, n \in 1..MaxN :
        /\ op' = Call("likely_next", word, n)
        /\ ret' = likely_next(text, word, n)
    /\ pc' = "returned"
    /\ calls' = calls + 1
    /\ UNCHANGED <<raw, clean_pg, text, blocks>>

\* analyzer.likely_previous(word, n)
DoLikelyPrevious ==
    /\ pc = "ready"
    /\ \E word \in Words, n \in 1..MaxN :
        /\ op' = Call("likely_previous", word, n)
        /\ ret' = likely_previous(text, word, n)
    /\ pc' = "returned"
    /\ calls' = calls + 1
    /\ UNCHANGED <<raw, clean_pg, text, blocks>>

\* One run of a command: the object is constructed and one method is called
\* on it.
Next ==
    \/ PGalyzerInit
    \/ DoNgrams
    \/ DoWordCount
    \/ CmdNgrams
    \/ CmdWordCount
    \/ DoConcordance
    \/ DoDisplayConcordance
    \/ DoLikelyNext
    \/ DoLikelyPrevious

Spec == Init /\ [][Next]_vars

\* Loading and cleaning a Project Gutenberg file.
NextClean == PGalyzerInit

SpecClean == InitClean /\ [][NextClean]_vars

\* Documents for runs of several calls.
CallDocs == {Concat(ps) : ps \in SeqsUpTo(Pieces, MaxCallPieces)}

\* A document, loaded verbatim or cleaned.
InitCalls ==
    /\ raw \in CallDocs
    /\ clean_pg \in BOOLEAN
    /\ Fresh

\* The caller keeps the object and goes on to another call.
Again ==
    /\ pc = "returned"
    /\ calls < MaxCalls
    /\ pc' = "ready"
    /\ UNCHANGED <<raw, clean_pg, text, blocks, op, ret, calls>>

\* The object used as a library: up to MaxCalls calls in a row.
NextCalls ==
    \/ PGalyzerInit
    \/ DoNgrams
    \/ DoWordCount
    \/ CmdNgrams
    \/ CmdWordCount
    \/ DoConcordance
    \/ DoDisplayConcordance
    \/ DoLikelyNext
    \/ DoLikelyPrevious
    \/ Again

SpecCalls == InitCalls /\ [][NextCalls]_vars

\* ====================================================== properties

\* The document as the claims speak of it: its lines (the body split on
\* newline), each the sequence of its whitespace-delimited tokens.
Lines(t) ==
    LET ls == SplitOn(t, <<NL>>) IN [l \in 1..Len(ls) |-> SplitWs(ls[l])]

\* The sum of the counts of a sequence of <<key, count>> pairs.
RECURSIVE SumCounts(_)
SumCounts(pairs) ==
    IF pairs = <<>> THEN 0 ELSE Head(pairs)[2] + SumCounts(Tail(pairs))

\* The sum of a sequence of numbers.
RECURSIVE Sum(_)
Sum(ns) == IF ns = <<>> THEN 0 ELSE Head(ns) + Sum(Tail(ns))

Returned(name) == pc = "returned" /\ op.name = name

\* Every token position of the document: <<l, i>> is token i (from 1) of
\* line l.
Positions(L) ==
    UNION {{<<l, i>> : i \in 1..Len(L[l])} : l \in 1..Len(L)}

\* The positions where an n-token window of a line starts that reads key.
WindowsOf(L, n, key) ==
    {p \in Positions(L) :
        /\ p[2] + n - 1 <= Len(L[p[1]])
        /\ Join(<<SP>>, SubSeq(L[p[1]], p[2], p[2] + n - 1)) = key}

\* The positions holding w whose next position in the same line holds v.
AdjacentAt(L, w, v) ==
    {p \in Positions(L) :
        /\ p[2] + 1 <= Len(L[p[1]])
        /\ L[p[1]][p[2]] = w
        /\ L[p[1]][p[2] + 1] = v}

\* All tokens of the document.
TokenSet(L) == {L[p[1]][p[2]] : p \in Positions(L)}

\* The words seen right after w (dir = "next") or right before w in a line.
Neighbours(L, w, dir) ==
    IF dir = "next"
    THEN {L[p[1]][p[2] + 1] :
            p \in {q \in Positions(L) :
                     q[2] + 1 <= Len(L[q[1]]) /\ L[q[1]][q[2]] = w}}
    ELSE {L[p[1]][p[2] - 1] :
            p \in {q \in Positions(L) : q[2] >= 2 /\ L[q[1]][q[2]] = w}}

\* How often v is the neighbour of w in that direction.
NeighbourCount(L, w, v, dir) ==
    IF dir = "next" THEN Cardinality(AdjacentAt(L, w, v))
    ELSE Cardinality(AdjacentAt(L, v, w))

Dir == IF op.name = "likely_next" THEN "next" ELSE "previous"

LikelyReturned == pc = "returned" /\ op.name \in {"likely_next", "likely_previous"}

\* ---------------------------------------------------------------- C1

\* C1: the counts returned by ngrams(n) add up to the number of n-token
\* windows of the document: the sum over its lines of
\* max(0, line_length - n + 1); a line shorter than n adds nothing.
C1_NgramTotal ==
    Returned("ngrams") =>
        LET L == Lines(text)
        IN  SumCounts(ret.val)
              = Sum([l \in 1..Len(L) |-> Max(0, Len(L[l]) - op.n + 1)])

\* ngrams(2) on a document with a line too short for a bigram and a line
\* holding at least two of them.
C1_Witness ==
    /\ Returned("ngrams")
    /\ op.n = 2
    /\ \E l, m \in 1..Len(Lines(text)) :
        Len(Lines(text)[l]) = 1 /\ Len(Lines(text)[m]) >= 3
    /\ SumCounts(ret.val) >= 2

\* ---------------------------------------------------------------- C2

\* C2: cleaning is idempotent: cleaning the text a cleaning produced gives
\* that same text.
C2_CleanIdempotent ==
    (pc = "ready" /\ clean_pg) => CleanText(text) = text

\* ---------------------------------------------------------------- C3

C5_RankingTotal ==
    (pc = "returned" /\ op.name \in {"cmd_ngrams", "cmd_word_count"}) =>
        \A i, j \in 1..Len(ret.val) :
            i < j => RankLess(ret.val[i], ret.val[j])

\* ---------------------------------------------------------------- C6

\* C6: display_concordance for a word with no occurrence returns normally
\* (an empty display), it does not fail.
C6_DisplayEmptyOk ==
    (Returned("display_concordance") /\ op.word \notin TokenSet(Lines(text))) =>
        ret.kind = "value"

\* ---------------------------------------------------------------- C7

\* A set of positions as a sequence: by line, then by place in the line.
RECURSIVE InOrder(_)
InOrder(ps) ==
    IF ps = {} THEN <<>>
    ELSE LET p == CHOOSE x \in ps : \A y \in ps :
                      x[1] < y[1] \/ (x[1] = y[1] /\ x[2] <= y[2])
         IN  <<p>> \o InOrder(ps \ {p})

\* The positions of the document holding word w.
Occurrences(L, w) == {p \in Positions(L) : L[p[1]][p[2]] = w}

\* C7: for the occurrence at index i (from 0) of a line of len tokens,
\* concordance gives as tokens-before the min(i, ns) tokens right before it
\* and as tokens-after the min(ns, len - 1 - i) tokens right after it, in
\* line order and of that line only.
C7_Windows ==
    Returned("concordance") =>
        LET L == Lines(text)
            occ == InOrder(Occurrences(L, op.word))
            ns == op.n
        IN  /\ Len(ret.val) = Len(occ)
            /\ \A k \in 1..Len(occ) :
                LET line == L[occ[k][1]]
                    i == occ[k][2] - 1
                    nb == Min(i, ns)
                    na == Min(ns, Len(line) - 1 - i)
                IN  /\ ret.val[k][1]
                         = Join(<<SP>>, SubSeq(line, i - nb + 1, i))
                    /\ ret.val[k][2]
                         = Join(<<SP>>, SubSeq(line, i + 2, i + 1 + na))
                    /\ Len(SplitWs(ret.val[k][1])) = nb
                    /\ Len(SplitWs(ret.val[k][2])) = na

\* concordance with ns >= 1 for an occurrence in the interior of its line
\* (i >= ns and i + ns < len - 1), in a document of several lines.
C7_Witness ==
    /\ Returned("concordance")
    /\ op.n >= 1
    /\ Len(Lines(text)) >= 2
    /\ \E p \in Occurrences(Lines(text), op.word) :
        /\ p[2] - 1 >= op.n
        /\ p[2] - 1 + op.n < Len(Lines(text)[p[1]]) - 1

\* ---------------------------------------------------------------- C8

C9_NoLineSpanning ==
    LET L == Lines(text)
    IN  /\ (Returned("ngrams") /\ op.n >= 2) =>
                \A k \in 1..Len(ret.val) :
                    /\ ret.val[k][2] >= 1
                    /\ ret.val[k][2]
                         = Cardinality(WindowsOf(L, op.n, ret.val[k][1]))
        /\ (LikelyReturned /\ ret.kind = "value") =>
                \A k \in 1..Len(ret.val) :
                    /\ ret.val[k][2] >= 1
                    /\ ret.val[k][2]
                         = NeighbourCount(L, op.word, ret.val[k][1], Dir)

\* ngrams(2) on a document where a line's last token and the next line's
\* first token would make a bigram that no single line holds.
C9_Witness ==
    /\ Returned("ngrams")
    /\ op.n = 2
    /\ ret.val # <<>>
    /\ LET L == Lines(text)
       IN  \E l \in 1..(Len(L) - 1) :
            /\ L[l] # <<>>
            /\ L[l + 1] # <<>>
            /\ WindowsOf(L, 2, L[l][Len(L[l])] \o <<SP>> \o L[l + 1][1]) = {}

\* --------------------------------------------------------------- C10

\* C10: with clean_pg the blocks kept are those after the first block that
\* starts with the start marker (all, if there is none) and, among those,
\* before the last block that starts with the end marker (to the end, if
\* there is none).
C10_KeptBlocks ==
    (pc = "ready" /\ clean_pg) =>
        LET all == SplitOn(Lower(raw), <<NL, NL>>)
            heads == {i \in 1..Len(all) : StartsWith(all[i], head)}
            from == IF heads = {} THEN 1
                    ELSE 1 + CHOOSE i \in heads : \A j \in heads : i <= j
            feet == {i \in from..Len(all) : StartsWith(all[i], foot)}
            to == IF feet = {} THEN Len(all)
                  ELSE (CHOOSE i \in feet : \A j \in feet : i >= j) - 1
        IN  blocks = SubSeq(all, from, to)

\* A file with a block before the start marker, both markers, and blocks
\* kept between them.
C10_Witness ==
    /\ pc = "ready"
    /\ clean_pg
    /\ blocks # <<>>
    /\ blocks[1] # <<>>
    /\ LET all == SplitOn(Lower(raw), <<NL, NL>>)
       IN  /\ Len(all) = Len(blocks) + 3
           /\ all[1] # <<>>
           /\ StartsWith(all[2], head)
           /\ StartsWith(all[Len(all)], foot)

\* --------------------------------------------------------------- C11

\* The window around token i (from 1) of a line: up to ns tokens on each
\* side.
WindowAt(line, i, ns) ==
    <<Join(<<SP>>, SubSeq(line, Max(1, i - ns), i - 1)),
      Join(<<SP>>, SubSeq(line, i + 1, Min(Len(line), i + ns)))>>

\* The windows of one line: one per token equal to w, left to right.
LineWindows(line, w, ns) ==
    LET at == InOrder({<<1, i>> : i \in {j \in 1..Len(line) : line[j] = w}})
    IN  [k \in 1..Len(at) |-> WindowAt(line, at[k][2], ns)]

\* C11: concordance returns one window per token equal to the word (the
\* same string, letter case included), the windows of a line left to right
\* and the lines in their order; a word with no occurrence gives the empty
\* list, not an error.
C11_OneWindowPerOccurrence ==
    Returned("concordance") =>
        LET L == Lines(text)
        IN  /\ ret.kind = "value"
            /\ Len(ret.val) = Cardinality(Occurrences(L, op.word))
            /\ ret.val = Concat([l \in 1..Len(L) |->
                                    LineWindows(L[l], op.word, op.n)])

\* concordance for a word that is twice in one line and once in another, in
\* a document that also holds the word in the other letter case.
C11_Witness ==
    /\ Returned("concordance")
    /\ op.n >= 1
    /\ LET L == Lines(text)
           occ == Occurrences(L, op.word)
       IN  /\ \E p, q \in occ : p[1] = q[1] /\ p[2] < q[2]
           /\ \E p, q \in occ : p[1] < q[1]
           /\ \E t \in TokenSet(L) : t # op.word /\ Lower(t) = Lower(op.word)

\* --------------------------------------------------------------- C12

\* A Counter as a mapping: the set of its <<key, count>> pairs.
Mapping(c) == {c[k] : k \in 1..Len(c)}

\* C12: word_count() and ngrams(1) give the same mapping from token to
\* count, each key once.
C12_WordCountIsUnigrams ==
    /\ Returned("word_count") =>
        /\ Mapping(ret.val) = Mapping(ngrams(text, 1))
        /\ Cardinality({ret.val[k][1] : k \in 1..Len(ret.val)}) = Len(ret.val)
    /\ (Returned("ngrams") /\ op.n = 1) =>
        /\ Mapping(ret.val) = Mapping(word_count(text))
        /\ Cardinality({ret.val[k][1] : k \in 1..Len(ret.val)}) = Len(ret.val)

\* word_count() on a document with two spaces in a row, an empty line, a
\* newline at its end and a word that occurs twice.
C12_Witness ==
    /\ Returned("word_count")
    /\ text # <<>>
    /\ text[Len(text)] = NL
    /\ \E i \in 1..(Len(text) - 1) : text[i] = SP /\ text[i + 1] = SP
    /\ \E l \in 1..(Len(Lines(text)) - 1) : Lines(text)[l] = <<>>
    /\ \E k \in 1..Len(ret.val) : ret.val[k][2] >= 2

\* --------------------------------------------------------------- C13
\* What the call o gives when it is the first call on an object whose text
\* is t.
FirstCall(o, t) ==
    CASE o.name = "ngrams" -> Value(ngrams(t, o.n))
      [] o.name = "word_count" -> Value(word_count(t))
      [] o.name = "cmd_ngrams" -> Value(Ranked(ngrams(t, o.n)))
      [] o.name = "cmd_word_count" -> Value(Ranked(word_count(t)))
      [] o.name = "concordance" -> Value(concordance(t, o.word, o.n))
      [] o.name = "display_concordance" -> display_concordance(t, o.word, o.n)
      [] o.name = "likely_next" -> likely_next(t, o.word, o.n)
      [] o.name = "likely_previous" -> likely_previous(t, o.word, o.n)

\* C13: after construction, whatever calls have been made (not-found ones
\* included), the text is still the one the constructor loaded from the
\* document, and the latest call's result is the one the same call gives as
\* the first call on a freshly constructed object.
C13_CallsKeepNoState ==
    /\ pc # "new" => text = LoadText(raw, clean_pg)
    /\ calls >= 1 => ret = FirstCall(op, LoadText(raw, clean_pg))

\* A second or later call has returned a non-empty ranking, on a text that
\* stripping would change.
C13_Witness ==
    /\ calls >= 2
    /\ pc = "returned"
    /\ op.name = "likely_next"
    /\ ret.kind = "value"
    /\ ret.val # <<>>
    /\ Strip(text) # text

\* --------------------------------------------------------------- C14
\* The processed retained blocks, each followed by one newline, end to end.
Body(bs) ==
    LET kept == SelectSeq(bs, LAMBDA b : b # <<>>)
    IN  Concat([i \in 1..Len(kept) |-> CleanBlock(kept[i])])

\* C14 as stated: with clean=true the text is the body with only its
\* trailing whitespace removed, so whitespace at the start of the first
\* retained block is still there.
C14_OnlyTrailingStripped ==
    (pc = "ready" /\ clean_pg) => text = StripTrailing(Body(blocks))

\* C14 amended: with clean=true the text is the body with the whitespace at
\* both ends removed: it is a stretch of the body, everything before and
\* after it in the body is whitespace, and it neither starts nor ends with
\* whitespace.
C14_BothEndsStripped ==
    (pc = "ready" /\ clean_pg) =>
        LET body == Body(blocks)
        IN  /\ \E i \in 0..(Len(body) - Len(text)) :
                  /\ text = SubSeq(body, i + 1, i + Len(text))
                  /\ \A j \in 1..i : IsSpace(body[j])
                  /\ \A j \in (i + Len(text) + 1)..Len(body) : IsSpace(body[j])
            /\ text # <<>> => ~IsSpace(text[1]) /\ ~IsSpace(text[Len(text)])

\* A cleaned file whose first retained block starts with a space and whose
\* text has two lines.
C14_Witness ==
    /\ pc = "ready"
    /\ clean_pg
    /\ LET body == Body(blocks)
       IN  /\ body # <<>>
           /\ body[1] = SP
           /\ Len(Lines(text)) >= 2

====
